---- MODULE Spec2Model ----
(***************************************************************************)
(* The per-guild playback queue of the prefix-command music bot: the       *)
(* `queue` Map from guild id to a queueConstruct, the messageCreate        *)
(* handler with its commands (play, skip, stop, pause, resume, queue, now),*)
(* the Idle and error listeners attached to each session's audio player,   *)
(* and playSong.                                                           *)
(*                                                                         *)
(* One step of the model is one dispatch of the event loop: a command      *)
(* handler up to its first await or to its end, the continuation of a      *)
(* suspended play, or one callback of an audio player.                     *)
(*                                                                         *)
(* Objects keep their identity: a queueConstruct, its player and its       *)
(* connection are named by the number of the play request that created     *)
(* them, and they stay reachable from the listeners' closures after the    *)
(* Map no longer holds them.                                               *)
(*                                                                         *)
(* The voice library is the environment.  What the source does not fix is  *)
(* left open: joinVoiceChannel may throw; a started playback may end       *)
(* (Idle) or fail (error); after an error whose listener started no new    *)
(* resource the player is idle and may or may not emit Idle as well;       *)
(* destroy() on a destroyed connection may throw or do nothing.            *)
(***************************************************************************)
EXTENDS Integers, Sequences, FiniteSets, TLC

\* ---------------------------------------------------------------- bounds
MaxPlays == 3
MaxCalls == 4

Guilds == {"g1", "g2"}

\* What the resolution finds for the n-th play request: songInfo.title.
Titles == <<"A", "B", "C", "D", "E">>
TitleOf(n) == Titles[((n - 1) % Len(Titles)) + 1]

Ids == 1 .. MaxPlays
NoSession == 0
NoSong == [id |-> 0, title |-> ""]

\* The slash-command bot (src/index.js): the invocations of its playSong.
Calls == 1 .. MaxCalls

\* An invocation that has not begun.  pc: "none", "awaitStream" (suspended at
\* getYouTubeAudioStream), "playing" (returned, its player is playing) or
\* "done"; connection: "null", "open" or "destroyed"; path: how it ended.
NoCall == [pc |-> "none", connection |-> "null", player |-> "none", destroys |-> 0,
           reply |-> "none", path |-> "", threw |-> FALSE]

VARIABLES
  queue,      \* the Map: guild id -> stored queueConstruct (NoSession: no key)
  sessions,   \* every queueConstruct created so far, stored or not
  inflight,   \* play handlers suspended at the awaits of the resolution
  nextId,     \* number of the next play request
  lastMsg,    \* the message the last dispatch sent (kind "none": it sent none)
  crashed,    \* an exception escaped a listener or a handler
  acked,      \* history: per guild, the songs play answered for
  removed,    \* history: songs taken out of a queue by shift() or by stop
  lastEvent,  \* history: the dispatch that led to this state
  calls       \* the slash-command bot: every invocation of its playSong

vars == <<queue, sessions, inflight, nextId, lastMsg, crashed, acked, removed, lastEvent,
         calls>>

\* A queueConstruct that no play has created yet.
Blank ==
  [guildId |-> "", songs |-> <<>>, connection |-> "null", player |-> "none",
   stopping |-> FALSE, resource |-> 0, listeners |-> FALSE,
   joins |-> 0, players |-> 0, destroys |-> 0]

Msg(g, kind, title, lines) == [guild |-> g, kind |-> kind, title |-> title, lines |-> lines]
NoMsg == Msg("", "none", "", <<>>)

\* The mutable part of the process that the handlers read and write, at the
\* start of a dispatch.
Heap == [queue |-> queue, sessions |-> sessions, lastMsg |-> NoMsg,
         crashed |-> crashed, removed |-> removed]

Commit(h) ==
  /\ queue' = h.queue
  /\ sessions' = h.sessions
  /\ lastMsg' = h.lastMsg
  /\ crashed' = h.crashed
  /\ removed' = h.removed

Say(h, g, kind, title, lines) == [h EXCEPT !.lastMsg = Msg(g, kind, title, lines)]

\* ------------------------------------------------- the voice library
\* songs[0] of a JavaScript array: undefined when the array is empty.
First(songs) == IF Len(songs) = 0 THEN NoSong ELSE songs[1]

\* player.play(resource): the player leaves whatever it was doing and plays.
PlayerPlay(h, s, song) ==
  [h EXCEPT !.sessions[s].player = "playing",
            !.sessions[s].stopping = FALSE,
            !.sessions[s].resource = song.id]

\* player.stop(): nothing on an idle player; otherwise the playback is ended
\* and the player emits Idle in a later dispatch.
PlayerStop(h, s) ==
  IF h.sessions[s].player \in {"playing", "paused"}
  THEN [h EXCEPT !.sessions[s].stopping = TRUE]
  ELSE h

\* player.pause() / player.unpause()
PlayerPause(h, s) ==
  IF h.sessions[s].player = "playing" THEN [h EXCEPT !.sessions[s].player = "paused"] ELSE h

PlayerUnpause(h, s) ==
  IF h.sessions[s].player = "paused" THEN [h EXCEPT !.sessions[s].player = "playing"] ELSE h

\* connection.destroy(): releases the connection.  Calling it on a null
\* handle is a TypeError; calling it again on a destroyed connection throws
\* or does nothing (throws tells which).
ConnectionDestroy(h, s, throws) ==
  LET c == h.sessions[s].connection
      h1 == [h EXCEPT !.sessions[s].destroys = @ + 1]
  IN  CASE c = "open" -> [h1 EXCEPT !.sessions[s].connection = "destroyed"]
        [] c = "destroyed" -> [h1 EXCEPT !.crashed = throws]
        [] OTHER -> [h EXCEPT !.crashed = TRUE]

\* ------------------------------------------------------------ playSong
\* Variant of playSong for OneConnectionOnePlayer: every song joins the voice
\* channel and creates a player again.
playSongRejoins(h, guildId, song) ==
  LET serverQueue == h.queue[guildId] IN
  IF song = NoSong THEN h
  ELSE IF serverQueue = NoSession THEN [h EXCEPT !.crashed = TRUE]
  ELSE Say([PlayerPlay(h, serverQueue, song) EXCEPT
              !.sessions[serverQueue].joins = @ + 1,
              !.sessions[serverQueue].players = @ + 1],
           guildId, "NowPlaying", song.title, <<>>)

playSong(h, guildId, song) ==
  LET serverQueue == h.queue[guildId] IN
  IF song = NoSong THEN h
  ELSE IF serverQueue = NoSession THEN [h EXCEPT !.crashed = TRUE]
  ELSE Say(PlayerPlay(h, serverQueue, song), guildId, "NowPlaying", song.title, <<>>)

\* queueConstruct.songs.shift()
Shift(h, s) ==
  LET songs == h.sessions[s].songs IN
  IF Len(songs) = 0 THEN h
  ELSE [h EXCEPT !.sessions[s].songs = Tail(songs),
                 !.removed = @ \cup {songs[1].id}]

\* ------------------------------------------- the listeners of a player
\* player.on(AudioPlayerStatus.Idle, ...) of queueConstruct s
IdleListener(h, s, throws) ==
  LET g == h.sessions[s].guildId
      h1 == Shift(h, s)
  IN  IF Len(h1.sessions[s].songs) > 0
      THEN playSong(h1, g, h1.sessions[s].songs[1])
      ELSE LET h2 == ConnectionDestroy(h1, s, throws)
           IN  IF h2.crashed THEN h2 ELSE [h2 EXCEPT !.queue[g] = NoSession]

\* Variant of ErrorListener for ErrorAdvances: an error ends the session as
\* stop does instead of going on with the next song.
ErrorListenerTearsDown(h, s) ==
  LET g == h.sessions[s].guildId
      h1 == ConnectionDestroy(Shift(h, s), s, FALSE)
  IN  [h1 EXCEPT !.queue[g] = NoSession]

\* player.on('error', ...) of queueConstruct s
ErrorListener(h, s) ==
  LET g == h.sessions[s].guildId
      h1 == Shift(h, s)
  IN  playSong(h1, g, First(h1.sessions[s].songs))

\* -------------------------------------------------- the play command
\* Variant of JoinFailed for ConnectionIffPlayer: the catch forgets
\* queue.delete and leaves the half-built queueConstruct in the Map.
JoinFailedKeepsKey(h, g) ==
  Say(h, g, "FailedToJoin", "", <<>>)

\* catch (error) of the voice connection: the key is deleted again.
JoinFailed(h, g) ==
  Say([h EXCEPT !.queue[g] = NoSession], g, "FailedToJoin", "", <<>>)

\* if (!serverQueue) { ... }: a new queueConstruct with its own player, stored
\* under the guild, then the connection, playSong and the listeners.
NewSession(h, s, g, song, joinOk) ==
  LET h1 == [h EXCEPT !.sessions[s] =
                        [Blank EXCEPT !.guildId = g, !.songs = <<song>>,
                                      !.player = "idle", !.players = 1],
                      !.queue[g] = s]
  IN  IF ~joinOk THEN JoinFailed(h1, g)
      ELSE LET h2 == [h1 EXCEPT !.sessions[s].connection = "open",
                                !.sessions[s].joins = @ + 1]
               h3 == playSong(h2, g, song)
           IN  [h3 EXCEPT !.sessions[s].listeners = TRUE]

\* else { serverQueue.songs.push(song); ... }: serverQueue is the object read
\* from the Map when the command arrived.
Enqueue(h, serverQueue, g, song) ==
  Say([h EXCEPT !.sessions[serverQueue].songs = Append(@, song)],
      g, "AddedToQueue", song.title, <<>>)

\* ------------------------------------------------ the other commands
skip(h, g) ==
  LET serverQueue == h.queue[g] IN
  IF serverQueue = NoSession THEN Say(h, g, "NoSongToSkip", "", <<>>)
  ELSE Say(PlayerStop(h, serverQueue), g, "Skipped", "", <<>>)

\* Variant of stop for StopRemovesSession: the handler forgets queue.delete.
stopKeepsKey(h, g, throws) ==
  LET serverQueue == h.queue[g] IN
  IF serverQueue = NoSession THEN Say(h, g, "NothingPlaying", "", <<>>)
  ELSE LET h1 == [h EXCEPT !.sessions[serverQueue].songs = <<>>,
                           !.removed = @ \cup {h.sessions[serverQueue].songs[i].id :
                                                 i \in 1 .. Len(h.sessions[serverQueue].songs)}]
           h2 == PlayerStop(h1, serverQueue)
           h3 == ConnectionDestroy(h2, serverQueue, throws)
       IN  IF h3.crashed THEN h3 ELSE Say(h3, g, "Stopped", "", <<>>)

\* Variant of stop for OtherGuildsUntouched: the whole Map is cleared
\* (queue.clear()) instead of the one key of the guild.
stopClearsMap(h, g, throws) ==
  LET serverQueue == h.queue[g] IN
  IF serverQueue = NoSession THEN Say(h, g, "NothingPlaying", "", <<>>)
  ELSE LET h1 == [h EXCEPT !.sessions[serverQueue].songs = <<>>,
                           !.removed = @ \cup {h.sessions[serverQueue].songs[i].id :
                                                 i \in 1 .. Len(h.sessions[serverQueue].songs)}]
           h2 == PlayerStop(h1, serverQueue)
           h3 == ConnectionDestroy(h2, serverQueue, throws)
       IN  IF h3.crashed THEN h3
           ELSE Say([h3 EXCEPT !.queue = [x \in Guilds |-> NoSession]],
                    g, "Stopped", "", <<>>)

stop(h, g, throws) ==
  LET serverQueue == h.queue[g] IN
  IF serverQueue = NoSession THEN Say(h, g, "NothingPlaying", "", <<>>)
  ELSE LET h1 == [h EXCEPT !.sessions[serverQueue].songs = <<>>,
                           !.removed = @ \cup {h.sessions[serverQueue].songs[i].id :
                                                 i \in 1 .. Len(h.sessions[serverQueue].songs)}]
           h2 == PlayerStop(h1, serverQueue)
           h3 == ConnectionDestroy(h2, serverQueue, throws)
       IN  IF h3.crashed THEN h3
           ELSE Say([h3 EXCEPT !.queue[g] = NoSession], g, "Stopped", "", <<>>)

\* Variant of pause for PauseResumeKeepSession: the player is stopped
\* (player.stop()) instead of paused.
pauseStops(h, g) ==
  LET serverQueue == h.queue[g] IN
  IF serverQueue = NoSession THEN h
  ELSE Say(PlayerStop(h, serverQueue), g, "Paused", "", <<>>)

pause(h, g) ==
  LET serverQueue == h.queue[g] IN
  IF serverQueue = NoSession THEN h
  ELSE Say(PlayerPause(h, serverQueue), g, "Paused", "", <<>>)

resume(h, g) ==
  LET serverQueue == h.queue[g] IN
  IF serverQueue = NoSession THEN h
  ELSE Say(PlayerUnpause(h, serverQueue), g, "Resumed", "", <<>>)

\* Variant of QueueLines for QueueReportsInOrder: the lines are numbered from
\* the array index i instead of i + 1.
QueueLinesFromZero(songs) == [i \in 1 .. Len(songs) |-> <<i - 1, songs[i].title>>]

\* serverQueue.songs.map((s, i) => `${i + 1}. ${s.title}`): one numbered line
\* per song.
QueueLines(songs) == [i \in 1 .. Len(songs) |-> <<i, songs[i].title>>]

queueReport(h, g) ==
  LET serverQueue == h.queue[g] IN
  IF serverQueue = NoSession \/ Len(h.sessions[serverQueue].songs) = 0
  THEN Say(h, g, "QueueEmpty", "", <<>>)
  ELSE Say(h, g, "Queue", "", QueueLines(h.sessions[serverQueue].songs))

now(h, g) ==
  LET serverQueue == h.queue[g] IN
  IF serverQueue = NoSession \/ First(h.sessions[serverQueue].songs) = NoSong
  THEN Say(h, g, "NothingPlayingNow", "", <<>>)
  ELSE Say(h, g, "NowPlayingIs", h.sessions[serverQueue].songs[1].title, <<>>)

Init ==
  /\ queue = [g \in Guilds |-> NoSession]
  /\ sessions = [s \in Ids |-> Blank]
  /\ inflight = {}
  /\ nextId = 1
  /\ lastMsg = NoMsg
  /\ crashed = FALSE
  /\ acked = [g \in Guilds |-> {}]
  /\ removed = {}
  /\ lastEvent = [kind |-> "none", guild |-> "", session |-> NoSession, len |-> 0,
                  prev |-> ""]
  /\ calls = [c \in Calls |-> NoCall]

\* ------------------------------------------------------------ actions
\* History of a dispatch of kind `kind` for guild g that concerns queueConstruct
\* s (NoSession: none): the length of s's queue before it, and whether the
\* dispatch before it was a stop, a pause or an Idle for a queueConstruct of g.
Event(kind, g, s) ==
  [kind |-> kind, guild |-> g, session |-> s,
   len |-> IF s = NoSession THEN 0 ELSE Len(sessions[s].songs),
   prev |-> IF /\ lastEvent.kind \in {"stop", "idle", "pause"}
               /\ lastEvent.guild = g
               /\ lastEvent.session # NoSession
            THEN lastEvent.kind ELSE ""]

\* Whether a destroy() of the connection of queueConstruct s can throw: only a
\* second destroy() has the two outcomes.
Throws(s) ==
  IF s # NoSession /\ sessions[s].connection = "destroyed" THEN BOOLEAN ELSE {FALSE}

\* !play up to the awaits of the resolution (lines 73-107).  serverQueue is
\* read from the Map here, before the handler suspends.
CmdPlay(g) ==
  /\ ~crashed
  /\ UNCHANGED calls
  /\ \E refused \in {"voiceChannel", "permissions", "search", "no"} :
       CASE refused = "voiceChannel" ->
              /\ lastMsg' = Msg(g, "JoinVoiceFirst", "", <<>>)
              /\ UNCHANGED <<inflight, nextId>>
         [] refused = "permissions" ->
              /\ lastMsg' = Msg(g, "NeedPermissions", "", <<>>)
              /\ UNCHANGED <<inflight, nextId>>
         [] refused = "search" ->
              /\ lastMsg' = Msg(g, "ProvideSong", "", <<>>)
              /\ UNCHANGED <<inflight, nextId>>
         [] OTHER ->
              /\ nextId <= MaxPlays
              /\ inflight' = inflight \cup
                   {[id |-> nextId, guildId |-> g, serverQueue |-> queue[g]]}
              /\ nextId' = nextId + 1
              /\ lastMsg' = NoMsg
  /\ lastEvent' = Event("play", g, queue[g])
  /\ UNCHANGED <<queue, sessions, crashed, acked, removed>>

\* The continuation of a suspended !play (lines 108-173): the outcome of the
\* resolution, then a new queueConstruct or a push onto the captured one.
PlayResolved(p) ==
  /\ ~crashed
  /\ UNCHANGED calls
  /\ p \in inflight
  /\ inflight' = inflight \ {p}
  /\ lastEvent' = Event("resolved", p.guildId, p.serverQueue)
  /\ UNCHANGED nextId
  /\ \E outcome \in {"throws", "unsupported", "notfound", "found"} :
       IF outcome # "found"
       THEN /\ lastMsg' = Msg(p.guildId,
                              CASE outcome = "throws" -> "FailedToLoad"
                                [] outcome = "unsupported" -> "OnlySpotifyTracks"
                                [] OTHER -> "SongNotFound",
                              "", <<>>)
            /\ UNCHANGED <<queue, sessions, crashed, acked, removed>>
       ELSE \E joinOk \in BOOLEAN :
              LET song == [id |-> p.id, title |-> TitleOf(p.id)] IN
              IF p.serverQueue = NoSession
              THEN /\ Commit(NewSession(Heap, p.id, p.guildId, song, joinOk))
                   /\ acked' = IF joinOk
                               THEN [acked EXCEPT ![p.guildId] = @ \cup {p.id}]
                               ELSE acked
              ELSE /\ Commit(Enqueue(Heap, p.serverQueue, p.guildId, song))
                   /\ acked' = [acked EXCEPT ![p.guildId] = @ \cup {p.id}]

CmdSkip(g) ==
  /\ ~crashed
  /\ UNCHANGED calls
  /\ Commit(skip(Heap, g))
  /\ lastEvent' = Event("skip", g, queue[g])
  /\ UNCHANGED <<inflight, nextId, acked>>

CmdStop(g) ==
  /\ ~crashed
  /\ UNCHANGED calls
  /\ \E throws \in Throws(queue[g]) : Commit(stop(Heap, g, throws))
  /\ lastEvent' = Event("stop", g, queue[g])
  /\ UNCHANGED <<inflight, nextId, acked>>

CmdPause(g) ==
  /\ ~crashed
  /\ UNCHANGED calls
  /\ Commit(pause(Heap, g))
  /\ lastEvent' = Event("pause", g, queue[g])
  /\ UNCHANGED <<inflight, nextId, acked>>

CmdResume(g) ==
  /\ ~crashed
  /\ UNCHANGED calls
  /\ Commit(resume(Heap, g))
  /\ lastEvent' = Event("resume", g, queue[g])
  /\ UNCHANGED <<inflight, nextId, acked>>

CmdQueue(g) ==
  /\ ~crashed
  /\ UNCHANGED calls
  /\ Commit(queueReport(Heap, g))
  /\ lastEvent' = Event("queue", g, queue[g])
  /\ UNCHANGED <<inflight, nextId, acked>>

CmdNow(g) ==
  /\ ~crashed
  /\ UNCHANGED calls
  /\ Commit(now(Heap, g))
  /\ lastEvent' = Event("now", g, queue[g])
  /\ UNCHANGED <<inflight, nextId, acked>>

\* The player of queueConstruct s has nothing left to play.
Idled(h, s) ==
  [h EXCEPT !.sessions[s].player = "idle",
            !.sessions[s].stopping = FALSE,
            !.sessions[s].resource = 0]

\* The player of queueConstruct s emits Idle: its playback ended, or
\* player.stop() ended it.
PlayerIdle(s) ==
  /\ ~crashed
  /\ UNCHANGED calls
  /\ \/ sessions[s].player = "playing"
     \/ sessions[s].player = "paused" /\ sessions[s].stopping
  /\ \E throws \in Throws(s) :
       Commit(IF sessions[s].listeners
              THEN IdleListener(Idled(Heap, s), s, throws)
              ELSE Idled(Heap, s))
  /\ lastEvent' = Event("idle", sessions[s].guildId, s)
  /\ UNCHANGED <<inflight, nextId, acked>>

\* The player of queueConstruct s emits error for the resource it plays.  If
\* the listener starts no new resource on this player, the player is idle
\* afterwards, and emits Idle as well or not (alsoIdle).
PlayerError(s) ==
  /\ ~crashed
  /\ UNCHANGED calls
  /\ sessions[s].player \in {"playing", "paused"}
  /\ \E alsoIdle \in BOOLEAN, throws \in Throws(s) :
       LET h1 == IF sessions[s].listeners
                 THEN ErrorListener(Idled(Heap, s), s)
                 ELSE Idled(Heap, s)
       IN  Commit(IF /\ alsoIdle
                     /\ ~h1.crashed
                     /\ h1.sessions[s].player = "idle"
                     /\ sessions[s].listeners
                  THEN IdleListener(h1, s, throws)
                  ELSE h1)
  /\ lastEvent' = Event("error", sessions[s].guildId, s)
  /\ UNCHANGED <<inflight, nextId, acked>>

\* One dispatch of the event loop, for a bot that is a member of the guilds G.
Serve(G) ==
  \/ \E g \in G : CmdPlay(g)
  \/ \E p \in inflight : PlayResolved(p)
  \/ \E g \in G : CmdSkip(g)
  \/ \E g \in G : CmdStop(g)
  \/ \E g \in G : CmdPause(g)
  \/ \E g \in G : CmdResume(g)
  \/ \E g \in G : CmdQueue(g)
  \/ \E g \in G : CmdNow(g)
  \/ \E s \in Ids : PlayerIdle(s)
  \/ \E s \in Ids : PlayerError(s)

\* The bot in one guild.
Next == Serve({"g1"})

Spec == Init /\ [][Next]_vars

\* The bot in every guild of Guilds.
NextGuilds == Serve(Guilds)

SpecGuilds == Init /\ [][NextGuilds]_vars

\* ------------------------------------- the slash-command bot (src/index.js)
\* The variables of the prefix-command bot, which the slash-command bot, a
\* program of its own, never touches.
botVars == <<queue, sessions, inflight, nextId, lastMsg, crashed, acked, removed, lastEvent>>

\* if (connection) connection.destroy(): nothing on a handle never assigned;
\* on a connection already destroyed the call throws or does nothing (throws
\* tells which).
DestroyIfConnected(r, throws) ==
  CASE r.connection = "open" ->
         [r EXCEPT !.connection = "destroyed", !.destroys = @ + 1]
    [] r.connection = "destroyed" ->
         [r EXCEPT !.destroys = @ + 1, !.threw = throws]
    [] OTHER -> r

\* playSong(interaction, track) up to its await: the voice channel test and
\* joinVoiceChannel in its try block.
playSongEnter(r, inVoice, joinOk) ==
  IF ~inVoice
  THEN [r EXCEPT !.pc = "done", !.reply = "JoinVoiceFirst", !.path = "noVoice"]
  ELSE IF ~joinOk
  THEN [r EXCEPT !.pc = "done", !.reply = "FailedToJoin", !.path = "joinFailed"]
  ELSE [r EXCEPT !.pc = "awaitStream", !.connection = "open"]

\* playSong after the await of getYouTubeAudioStream.  audioStream: a stream
\* was found; thrown: what throws in the last try block ("play": player.play,
\* "later": connection.subscribe or editReply, once the player is playing).
playSongResume(r, audioStream, thrown) ==
  IF ~audioStream
  THEN [DestroyIfConnected(r, FALSE) EXCEPT
          !.pc = "done", !.reply = "NoStream", !.path = "noStream"]
  ELSE CASE thrown = "play" ->
              [DestroyIfConnected(r, FALSE) EXCEPT
                 !.pc = "done", !.player = "idle", !.reply = "FailedToPlay",
                 !.path = "playThrew"]
         [] thrown = "later" ->
              [DestroyIfConnected(r, FALSE) EXCEPT
                 !.pc = "playing", !.player = "playing", !.reply = "FailedToPlay",
                 !.path = "playThrew"]
         [] OTHER ->
              [r EXCEPT !.pc = "playing", !.player = "playing", !.reply = "NowPlaying"]

\* Variant of OnIdle for SlashConnectionsReleased: the listener only logs.
OnIdleKeepsConnection(r, throws) == [r EXCEPT !.path = "idle"]

\* player.on(AudioPlayerStatus.Idle, ...) of one invocation
OnIdle(r, throws) == [DestroyIfConnected(r, throws) EXCEPT !.path = "idle"]

\* player.on('error', ...) of one invocation
OnError(r, throws) ==
  [DestroyIfConnected(r, throws) EXCEPT !.path = "error", !.reply = "PlaybackError"]

\* An exception escaped a listener of the slash-command bot.
SlashCrashed == \E c \in Calls : calls[c].threw

\* /play reaches playSong for invocation c.
SlashPlay(c) ==
  /\ ~SlashCrashed
  /\ calls[c].pc = "none"
  /\ \E inVoice \in BOOLEAN, joinOk \in BOOLEAN :
       calls' = [calls EXCEPT ![c] = playSongEnter(@, inVoice, joinOk)]
  /\ UNCHANGED botVars

\* getYouTubeAudioStream settles and invocation c goes on.
SlashStream(c) ==
  /\ ~SlashCrashed
  /\ calls[c].pc = "awaitStream"
  /\ \E audioStream \in BOOLEAN, thrown \in {"none", "play", "later"} :
       calls' = [calls EXCEPT ![c] = playSongResume(@, audioStream, thrown)]
  /\ UNCHANGED botVars

\* The player of invocation c ends its resource and emits Idle.
SlashPlayerIdle(c) ==
  /\ ~SlashCrashed
  /\ calls[c].player = "playing"
  /\ \E throws \in BOOLEAN :
       calls' = [calls EXCEPT ![c] =
                   OnIdle([@ EXCEPT !.pc = "done", !.player = "idle"], throws)]
  /\ UNCHANGED botVars

\* The player of invocation c emits error, and Idle as well or not (alsoIdle).
SlashPlayerError(c) ==
  /\ ~SlashCrashed
  /\ calls[c].player = "playing"
  /\ \E throws \in BOOLEAN, alsoIdle \in BOOLEAN :
       LET r1 == OnError([calls[c] EXCEPT !.pc = "done", !.player = "idle"], throws)
       IN  calls' = [calls EXCEPT ![c] =
                       IF alsoIdle /\ ~r1.threw THEN OnIdle(r1, throws) ELSE r1]
  /\ UNCHANGED botVars

NextSlash ==
  \/ \E c \in Calls : SlashPlay(c)
  \/ \E c \in Calls : SlashStream(c)
  \/ \E c \in Calls : SlashPlayerIdle(c)
  \/ \E c \in Calls : SlashPlayerError(c)

SpecSlash == Init /\ [][NextSlash]_vars

\* ===================================================== the claims
\* In the action formulas below a step is named by its action; the kind of
\* lastEvent', which every action sets, is tested first.
Stored(s) == s # NoSession /\ queue[sessions[s].guildId] = s
Created(s) == sessions[s].player # "none"
SongIds(songs) == [i \in 1 .. Len(songs) |-> songs[i].id]
StoredIds(g) == IF queue[g] = NoSession THEN <<>> ELSE SongIds(sessions[queue[g]].songs)

\* C1: in every state, the queue of the guild's stored session holds exactly
\* the songs that play answered for and that no shift() or stop has taken out
\* since, each once, in the order in which their play commands arrived (request
\* numbers ascending).
PlayKeepsArrivalOrder ==
  \A g \in Guilds :
    LET q == StoredIds(g) IN
    /\ \A i, j \in 1 .. Len(q) : i < j => q[i] < q[j]
    /\ {q[i] : i \in 1 .. Len(q)} = acked[g] \ removed

\* C2: every queueConstruct in the Map has a live connection exactly if it has
\* a player; both are there.
ConnectionIffPlayer ==
  \A g \in Guilds :
    queue[g] # NoSession =>
      /\ sessions[queue[g]].connection = "open" <=> sessions[queue[g]].player # "none"
      /\ sessions[queue[g]].connection # "null"

\* A stored session that advanced to its second song and plays it.
ConnectionIffPlayerWitness ==
  \E g \in Guilds :
    /\ queue[g] # NoSession
    /\ sessions[queue[g]].connection = "open"
    /\ sessions[queue[g]].player = "playing"
    /\ queue[g] \in removed
    /\ Len(sessions[queue[g]].songs) >= 1

\* C3: a stop for a guild with a stored session empties its queue, destroys
\* its connection (the first and only destroy of it so far) and deletes the key,
\* whatever the player does and however long the queue is; a stop that finds no
\* key, as the one directly after does, answers "Nothing is playing" and changes
\* neither the Map nor any queueConstruct, connection or player.
StopRemovesSession ==
  [][\A g \in Guilds :
       (lastEvent'.kind = "stop" /\ CmdStop(g)) =>
         IF queue[g] # NoSession
         THEN /\ sessions'[queue[g]].songs = <<>>
              /\ sessions'[queue[g]].connection = "destroyed"
              /\ sessions'[queue[g]].destroys = 1
              /\ queue'[g] = NoSession
              /\ lastMsg' = Msg(g, "Stopped", "", <<>>)
              /\ ~crashed'
         ELSE /\ lastMsg' = Msg(g, "NothingPlaying", "", <<>>)
              /\ UNCHANGED <<queue, sessions, inflight, crashed, removed>>
    ]_vars

\* A second stop directly after the stop of a paused session: it answered
\* "Nothing is playing" and the connection is destroyed once.
StopRemovesSessionWitness ==
  /\ lastEvent.kind = "stop"
  /\ lastEvent.prev = "stop"
  /\ lastMsg.kind = "NothingPlaying"
  /\ queue[lastEvent.guild] = NoSession
  /\ \E s \in Ids :
       /\ sessions[s].player = "paused"
       /\ sessions[s].connection = "destroyed"
       /\ sessions[s].destroys = 1
       /\ sessions[s].songs = <<>>

\* C4: the queue command answers with one line per song of the stored queue,
\* numbered from 1, holding the titles in queue order, and changes nothing; an
\* Idle of a player whose queueConstruct holds s1, s2, ..., sn with n >= 2
\* leaves it holding s2, ..., sn.
QueueReportsInOrder ==
  [][/\ \A g \in Guilds :
          (lastEvent'.kind = "queue" /\ CmdQueue(g) /\ queue[g] # NoSession /\ Len(sessions[queue[g]].songs) > 0) =>
             LET songs == sessions[queue[g]].songs IN
             /\ lastMsg'.kind = "Queue"
             /\ Len(lastMsg'.lines) = Len(songs)
             /\ \A i \in 1 .. Len(songs) : lastMsg'.lines[i] = <<i, songs[i].title>>
             /\ UNCHANGED <<queue, sessions>>
     /\ \A s \in Ids :
          (lastEvent'.kind = "idle" /\ PlayerIdle(s) /\ Len(sessions[s].songs) >= 2) =>
             /\ Len(sessions'[s].songs) = Len(sessions[s].songs) - 1
             /\ \A i \in 1 .. Len(sessions'[s].songs) :
                  sessions'[s].songs[i] = sessions[s].songs[i + 1]
    ]_vars

\* A, B and C were enqueued, one Idle took A out, and the queue command
\* answered [B, C].
QueueReportsInOrderWitness ==
  /\ lastEvent.kind = "queue"
  /\ lastEvent.prev = "idle"
  /\ queue["g1"] = 1
  /\ SongIds(sessions[1].songs) = <<2, 3>>
  /\ lastMsg.kind = "Queue"
  /\ lastMsg.lines = << <<1, "B">>, <<2, "C">> >>
  /\ removed = {1}
  /\ acked["g1"] = {1, 2, 3}

\* The answers of a play that ends without a song queued or playing.
PlayFailed == {"FailedToLoad", "OnlySpotifyTracks", "SongNotFound", "FailedToJoin"}

\* C5: when the continuation of a play has its song (and does not end in one
\* of the failure answers) and the Map holds a session for the guild at that
\* moment, the song is appended to the tail of
\* that session's queue with the answer "Added to queue"; the head, the
\* resource in the player, the connection and the player stay as they are, the
\* Map is unchanged and no further queueConstruct, connection or player comes
\* into being.
PlayOnSessionAppends ==
  [][\A p \in inflight :
       (/\ lastEvent'.kind = "resolved"
        /\ PlayResolved(p)
        /\ lastMsg'.kind \notin PlayFailed
        /\ queue[p.guildId] # NoSession) =>
          LET s == queue[p.guildId] IN
          /\ sessions' = [sessions EXCEPT ![s].songs =
                            Append(@, [id |-> p.id, title |-> TitleOf(p.id)])]
          /\ lastMsg' = Msg(p.guildId, "AddedToQueue", TitleOf(p.id), <<>>)
          /\ queue' = queue
    ]_vars

\* C6: every queueConstruct has had exactly one player created for it and,
\* once its connection is there, exactly one joinVoiceChannel, in every state
\* from its creation on: pushes, Idle and error advances and playSong add none.
OneConnectionOnePlayer ==
  \A s \in Ids :
    Created(s) =>
      /\ sessions[s].players = 1
      /\ sessions[s].joins = IF sessions[s].connection = "null" THEN 0 ELSE 1

\* A stored session that took three songs and advanced twice, playing the
\* third on its one player and one connection.
OneConnectionOnePlayerWitness ==
  /\ queue["g1"] = 1
  /\ SongIds(sessions[1].songs) = <<3>>
  /\ removed = {1, 2}
  /\ sessions[1].player = "playing"
  /\ sessions[1].resource = 3
  /\ sessions[1].connection = "open"
  /\ sessions[1].joins = 1
  /\ sessions[1].players = 1

\* C7: an error of the player of a stored session whose queue holds two or
\* more songs takes exactly the head out of the queue, starts the new head on
\* the same player with a "Now playing" message, and leaves the session in the
\* Map with its connection open; nothing is joined or created.
ErrorAdvances ==
  [][\A s \in Ids :
       (lastEvent'.kind = "error" /\ PlayerError(s) /\ Stored(s)
                                   /\ Len(sessions[s].songs) >= 2) =>
          LET songs == sessions[s].songs IN
          /\ sessions' = [sessions EXCEPT ![s].songs = Tail(songs),
                                          ![s].player = "playing",
                                          ![s].stopping = FALSE,
                                          ![s].resource = songs[2].id]
          /\ sessions[s].connection = "open"
          /\ removed' = removed \cup {songs[1].id}
          /\ queue' = queue
          /\ lastMsg' = Msg(sessions[s].guildId, "NowPlaying", songs[2].title, <<>>)
          /\ ~crashed'
    ]_vars

\* The state after an error on the first of three songs of the stored session.
ErrorAdvancesWitness ==
  /\ lastEvent.kind = "error"
  /\ lastEvent.session = 1
  /\ lastEvent.len = 3
  /\ queue["g1"] = 1
  /\ SongIds(sessions[1].songs) = <<2, 3>>
  /\ sessions[1].resource = 2
  /\ sessions[1].player = "playing"

\* C8: an error of the player of a stored session whose queue holds one song
\* ends the session as the Idle listener does on a drained queue: the queue is
\* empty, the connection destroyed and the key deleted.
ErrorOnLastSongReleases ==
  [][\A s \in Ids :
       (lastEvent'.kind = "error" /\ PlayerError(s) /\ Stored(s)
                                   /\ Len(sessions[s].songs) = 1) =>
          /\ sessions'[s].songs = <<>>
          /\ sessions'[s].connection = "destroyed"
          /\ queue'[sessions[s].guildId] = NoSession
    ]_vars

\* C9: a skip for a stored session with two or more songs ends the current
\* playback, so that an Idle of its player is due; that Idle takes exactly the
\* head out, starts the former second song, and leaves no further Idle due.
SkipAdvancesOnce ==
  [][/\ \A g \in Guilds :
          (lastEvent'.kind = "skip" /\ CmdSkip(g) /\ queue[g] # NoSession /\ Len(sessions[queue[g]].songs) >= 2) =>
             /\ sessions'[queue[g]].stopping
             /\ sessions'[queue[g]].songs = sessions[queue[g]].songs
     /\ \A s \in Ids :
          (lastEvent'.kind = "idle" /\ PlayerIdle(s) /\ Stored(s) /\ sessions[s].stopping
                         /\ Len(sessions[s].songs) >= 2) =>
             /\ sessions'[s].songs = Tail(sessions[s].songs)
             /\ sessions'[s].player = "playing"
             /\ sessions'[s].resource = sessions[s].songs[2].id
             /\ ~sessions'[s].stopping
    ]_vars

\* C10: a queueConstruct is in the Map exactly if its queue is non-empty and
\* its connection is open.
StoredIffQueueAndConnection ==
  \A s \in Ids :
    Created(s) =>
      (Stored(s) <=> (Len(sessions[s].songs) > 0 /\ sessions[s].connection = "open"))

\* C11: once every started playback has produced its callback (no player is
\* playing or paused) and no play is suspended, nothing is left that could
\* release anything: then no guild has a session in the Map and no connection is
\* open.
QuietMeansReleased ==
  (/\ ~crashed
   /\ inflight = {}
   /\ \A s \in Ids : sessions[s].player \notin {"playing", "paused"}) =>
     /\ \A g \in Guilds : queue[g] = NoSession
     /\ \A s \in Ids : sessions[s].connection # "open"

\* C12: the continuation of a play that was suspended while a stop removed the
\* session it had read from the Map (the stop is the dispatch just before it)
\* discards its result: the guild has no session afterwards, no queueConstruct changes, no
\* connection is open for the guild and no song is answered as queued or playing.
LatePlayAfterStopDiscards ==
  [][\A p \in inflight :
       (/\ lastEvent.kind = "stop"
        /\ lastEvent.guild = p.guildId
        /\ lastEvent.session # NoSession
        /\ lastEvent.session = p.serverQueue
        /\ lastEvent'.kind = "resolved"
        /\ PlayResolved(p)) =>
          /\ queue'[p.guildId] = NoSession
          /\ sessions' = sessions
          /\ \A s \in Ids : sessions'[s].guildId = p.guildId =>
                              sessions'[s].connection # "open"
          /\ lastMsg'.kind \notin {"AddedToQueue", "NowPlaying"}
    ]_vars

\* C13: a command or callback addressed to guild g leaves every other guild h
\* as it was: the Map entry of h and every queueConstruct of h (its songs, its
\* connection, its player) are unchanged by the dispatch.
OtherGuildsUntouched ==
  [][\A h \in Guilds :
       h # lastEvent'.guild =>
         /\ queue'[h] = queue[h]
         /\ \A s \in Ids :
              (sessions[s].guildId = h \/ sessions'[s].guildId = h) =>
                sessions'[s] = sessions[s]
    ]_vars

\* g2's session has just been stopped while g1's session is playing the first
\* of its two songs.
OtherGuildsUntouchedWitness ==
  /\ lastEvent.kind = "stop"
  /\ lastEvent.guild = "g2"
  /\ lastEvent.session # NoSession
  /\ queue["g2"] = NoSession
  /\ queue["g1"] # NoSession
  /\ sessions[queue["g1"]].player = "playing"
  /\ Len(sessions[queue["g1"]].songs) = 2

\* C14: pause and resume change nothing of a session but the playing/paused
\* status of its player: the Map, the songs and the connection stay as they
\* are.  A paused player is playing again after resume, and with no session
\* for the guild both commands change nothing and answer nothing.
PauseResumeKeepSession ==
  [][\A g \in Guilds :
       (/\ lastEvent'.kind \in {"pause", "resume"}
        /\ (CmdPause(g) \/ CmdResume(g))) =>
          /\ queue' = queue
          /\ removed' = removed
          /\ \A s \in Ids :
               sessions'[s] = [sessions[s] EXCEPT !.player = sessions'[s].player]
          /\ (queue[g] = NoSession => (sessions' = sessions /\ lastMsg' = NoMsg))
          /\ (/\ lastEvent'.kind = "resume"
              /\ queue[g] # NoSession
              /\ sessions[queue[g]].player = "paused") =>
                sessions'[queue[g]].player = "playing"
    ]_vars

\* A session that was paused by the dispatch before is playing again after
\* resume, with its two songs and its connection.
PauseResumeKeepSessionWitness ==
  /\ lastEvent.kind = "resume"
  /\ lastEvent.prev = "pause"
  /\ lastEvent.session # NoSession
  /\ queue["g1"] = lastEvent.session
  /\ sessions[lastEvent.session].player = "playing"
  /\ sessions[lastEvent.session].connection = "open"
  /\ Len(sessions[lastEvent.session].songs) = 2
  /\ lastMsg.kind = "Resumed"

\* C15: when the first play for a guild with no session fails, the guild has
\* no session in the Map afterwards and the connection of that play is not
\* left open.  The failures are: the play is refused before it suspends, its
\* continuation ends in one of the failure answers (resolution or voice
\* connect), or the player reports an error for the first song while it is the
\* only song of the new session.
FailedFirstPlayLeavesNothing ==
  [][/\ \A g \in Guilds :
          (/\ lastEvent'.kind = "play"
           /\ CmdPlay(g)
           /\ queue[g] = NoSession
           /\ lastMsg'.kind \in {"JoinVoiceFirst", "NeedPermissions", "ProvideSong"}) =>
             queue'[g] = NoSession
     /\ \A p \in inflight :
          (/\ lastEvent'.kind = "resolved"
           /\ PlayResolved(p)
           /\ p.serverQueue = NoSession
           /\ queue[p.guildId] = NoSession
           /\ lastMsg'.kind \in PlayFailed) =>
             /\ queue'[p.guildId] = NoSession
             /\ sessions'[p.id].connection # "open"
     /\ \A s \in Ids :
          (/\ lastEvent'.kind = "error"
           /\ PlayerError(s)
           /\ Stored(s)
           /\ sessions[s].resource = s
           /\ SongIds(sessions[s].songs) = <<s>>) =>
             /\ queue'[sessions[s].guildId] = NoSession
             /\ sessions'[s].connection # "open"
    ]_vars

\* C16: whenever the player of a guild's stored session is playing or paused,
\* the song loaded in it is the head of that session's queue.
PlayerPlaysHead ==
  \A g \in Guilds :
    (/\ queue[g] # NoSession
     /\ sessions[queue[g]].player \in {"playing", "paused"}) =>
       /\ Len(sessions[queue[g]].songs) > 0
       /\ sessions[queue[g]].resource = sessions[queue[g]].songs[1].id

\* C17: an Idle or error callback of the player of a session that is no longer
\* the one in the Map does not touch the guild's current session: the Map
\* entry stays, and the current queueConstruct (songs, player, connection) is
\* unchanged.
LateCallbackSparesCurrent ==
  [][\A s \in Ids :
       (/\ lastEvent'.kind \in {"idle", "error"}
        /\ (PlayerIdle(s) \/ PlayerError(s))
        /\ ~Stored(s)
        /\ queue[sessions[s].guildId] # NoSession) =>
          /\ queue'[sessions[s].guildId] = queue[sessions[s].guildId]
          /\ sessions'[queue[sessions[s].guildId]] = sessions[queue[sessions[s].guildId]]
    ]_vars

\* C18: a song that play has acknowledged and that is still in the queue of
\* the guild's stored session is not left with an idle player: while the
\* stored session has songs, its player is playing or paused, so that the
\* Idle callback that starts the next song is still to come.
QueuedSongsHavePlayback ==
  \A g \in Guilds :
    (/\ ~crashed
     /\ queue[g] # NoSession
     /\ sessions[queue[g]].connection = "open"
     /\ \E i \in 1 .. Len(sessions[queue[g]].songs) :
          sessions[queue[g]].songs[i].id \in acked[g]) =>
       sessions[queue[g]].player \in {"playing", "paused"}

\* C19: every open connection and every live player (playing or paused, not
\* being stopped) belongs to the session the Map holds for its guild; so a
\* guild has at most one of each and none is orphaned.
NoOrphanConnectionOrPlayer ==
  \A s \in Ids :
    (\/ sessions[s].connection = "open"
     \/ (sessions[s].player \in {"playing", "paused"} /\ ~sessions[s].stopping)) =>
       Stored(s)

\* C20: the connection of a queueConstruct is destroyed at most once.
DestroyedAtMostOnce == \A s \in Ids : sessions[s].destroys <= 1

\* C21: in the slash-command bot's playSong no connection is acquired when the
\* member is in no voice channel, and the connection that was acquired is
\* destroyed once the invocation has ended because no audio stream was found,
\* because play/subscribe threw, because its player became idle or because its
\* player reported an error.
SlashConnectionsReleased ==
  \A c \in Calls :
    /\ calls[c].path = "noVoice" =>
         (calls[c].connection = "null" /\ calls[c].destroys = 0)
    /\ calls[c].path \in {"noStream", "playThrew", "idle", "error"} =>
         calls[c].connection = "destroyed"

\* Four invocations have ended, one on each of the four paths, each with its
\* connection destroyed.
SlashConnectionsReleasedWitness ==
  /\ calls[1].path = "noStream" /\ calls[1].connection = "destroyed"
  /\ calls[2].path = "playThrew" /\ calls[2].connection = "destroyed"
  /\ calls[3].path = "idle" /\ calls[3].connection = "destroyed"
  /\ calls[4].path = "error" /\ calls[4].connection = "destroyed"

====
